---- MODULE Spec2Model ----
(***************************************************************************)
(* The execution and status-propagation engine of linux_setup_ur:          *)
(* CommandStruct (run / interact_mode / validate_command), ConfigItem      *)
(* (apply), SetupEntry (setup / run / run_commands / run_configs /         *)
(* clear_commands), SetupRegistry (execute), CommandRepository and         *)
(* ConfigRepository (run) and the ProcessRunner trait (execute).           *)
(*                                                                         *)
(* The Shell Invoker (std::process::Command) and the terminal are the      *)
(* environment: every call draws its outcome from a small set.             *)
(***************************************************************************)
EXTENDS Integers, Sequences, FiniteSets, TLC

\* ------------------------------------------------------------------ bounds
MaxEntries == 2
MaxCommands == 2
MaxConfigs == 1
MaxExec == 2
MaxPrints == 2
MaxExecCommands == 1

\* ------------------------------------------------------- Option<T> values
None == <<>>
Some(x) == <<x>>
IsSome(o) == o # <<>>
Unwrap(o) == o[1]

\* ----------------------------------------------------------------- Status
Status == {"Running", "Success", "Warning", "Failure", "Normal", "Skipped", "Passed"}

StatusDefault == "Normal"

\* Status::to_color
to_color(s) ==
    CASE s = "Running" -> "Blue"
      [] s = "Success" -> "Green"
      [] s = "Warning" -> "Yellow"
      [] s = "Failure" -> "Red"
      [] s = "Normal"  -> "None"
      [] s = "Skipped" -> "Yellow"
      [] s = "Passed"  -> "Yellow"

\* print_message with println! in every arm
print_message_println(s) ==
    CASE s = "Running" -> [stream |-> "stdout", icon |-> "Running:", color |-> to_color(s)]
      [] s = "Success" -> [stream |-> "stdout", icon |-> "Success:", color |-> to_color(s)]
      [] s = "Warning" -> [stream |-> "stdout", icon |-> "Warning:", color |-> to_color(s)]
      [] s = "Failure" -> [stream |-> "stdout", icon |-> "Failed:",  color |-> to_color(s)]
      [] s = "Skipped" -> [stream |-> "stdout", icon |-> "Skipped:", color |-> to_color(s)]
      [] s = "Passed"  -> [stream |-> "stdout", icon |-> "Passed:",  color |-> to_color(s)]
      [] s = "Normal"  -> [stream |-> "stdout", icon |-> "",         color |-> to_color(s)]

\* Status::print_message: the stream and the icon of the line it writes
print_message(s) ==
    CASE s = "Running" -> [stream |-> "stdout", icon |-> "Running:", color |-> to_color(s)]
      [] s = "Success" -> [stream |-> "stdout", icon |-> "Success:", color |-> to_color(s)]
      [] s = "Warning" -> [stream |-> "stdout", icon |-> "Warning:", color |-> to_color(s)]
      [] s = "Failure" -> [stream |-> "stderr", icon |-> "Failed:",  color |-> to_color(s)]
      [] s = "Skipped" -> [stream |-> "stdout", icon |-> "Skipped:", color |-> to_color(s)]
      [] s = "Passed"  -> [stream |-> "stdout", icon |-> "Passed:",  color |-> to_color(s)]
      [] s = "Normal"  -> [stream |-> "stdout", icon |-> "",         color |-> to_color(s)]

\* ----------------------------------------------------------- distribution
DistributionType == {"Ubuntu", "ArchLinux", "Unknown"}

\* The files LinuxDistributor::check looks at: whether /etc/arch-release
\* exists, and the words of /etc/lsb-release (None when it cannot be read).
HostFiles ==
    { [arch_release |-> TRUE,  lsb_release |-> Some({"DISTRIB_ID", "Ubuntu"})],
      [arch_release |-> FALSE, lsb_release |-> Some({"DISTRIB_ID", "Ubuntu"})],
      [arch_release |-> FALSE, lsb_release |-> None] }

\* LinuxDistributor::check for DistributionType
check(f) ==
    IF f.arch_release THEN "ArchLinux"
    ELSE IF IsSome(f.lsb_release) /\ "Ubuntu" \in Unwrap(f.lsb_release) THEN "Ubuntu"
    ELSE "Unknown"

identify_linux_distribution(f) == check(f)

\* ------------------------------------------------------------------ shell
Shell == {<<"Bash">>, <<"Zsh">>, <<"Sh">>, <<"Custom", "fish">>}

ShellDefault == <<"Sh">>

\* impl Display for Shell
ShellToString(sh) ==
    CASE sh[1] = "Bash"   -> "bash"
      [] sh[1] = "Zsh"    -> "zsh"
      [] sh[1] = "Sh"     -> "sh"
      [] sh[1] = "Custom" -> sh[2]

\* ------------------------------------------------- Shell Invoker outcomes
\* Text is a sequence of words; a contiguous run of words is a substring.
COMMAND_NOT_FOUND == <<"Command", "not", "found">>
COMMAND_EXECUTION_FAILED == <<"Command", "execution", "failed">>

Contains(text, pat) ==
    \E k \in 0..(Len(text) - Len(pat)) :
        \A m \in 1..Len(pat) : text[k + m] = pat[m]

\* Command::output(): Err(io::Error), or Ok(Output) with an exit code
\* (None when a signal ended the child), stdout and stderr.
IoError == [err |-> TRUE, code |-> None, stdout |-> <<>>, stderr |-> <<>>]

Output(code, out, errtext) ==
    [err |-> FALSE, code |-> code, stdout |-> out, stderr |-> errtext]

\* What a payload command line may do in capture mode
CaptureOutcomes ==
    { IoError,
      Output(Some(0), <<"Hello">>, <<>>),
      Output(Some(1), <<>>, <<"sh:", "command", "not", "found">>),
      Output(Some(127), <<>>, <<"Command", "not", "found">>),
      Output(None, <<>>, <<>>) }

\* What the probe of an idempotency check may do
ProbeOutcomes ==
    { IoError,
      Output(Some(0), <<"/usr/bin/nvim">>, <<>>),
      Output(Some(0), <<>>, <<>>),
      Output(Some(1), <<"nvim", "not", "found">>, <<>>),
      Output(None, <<>>, <<>>) }

\* Command::spawn() then Child::wait(): the spawn fails, the wait fails, or
\* the child ends with an ExitStatus.
SpawnError == [spawn_err |-> TRUE,  wait_err |-> FALSE, code |-> None]
WaitError  == [spawn_err |-> FALSE, wait_err |-> TRUE,  code |-> None]
Exited(code) == [spawn_err |-> FALSE, wait_err |-> FALSE, code |-> code]

SpawnOutcomes ==
    { SpawnError, WaitError, Exited(Some(0)), Exited(Some(1)), Exited(None) }

\* ExitStatus::success
success(code) == code = Some(0)

\* ------------------------------------------------------------ CommandStruct
\* The effects of one call on a unit: the memoized status cell, how often
\* the cell was written, the status lines print_message wrote to stdout and
\* to stderr, and the other lines written to stderr (eprintln!).
Effects(cell) == [status |-> cell, writes |-> 0, out |-> 0, err |-> 0, elines |-> 0]

\* RefCell::replace on the status cell
replace(fx, status) == [fx EXCEPT !.status = status, !.writes = @ + 1]

\* set_status printing the status without storing it in the cell
set_status_print_only(fx, status) ==
    IF print_message(status).stream = "stderr"
    THEN [fx EXCEPT !.err = @ + 1]
    ELSE [fx EXCEPT !.out = @ + 1]

\* CommandStruct::set_status: replace the cell, then print_message
set_status(fx, status) ==
    LET fy == replace(fx, status) IN
    IF print_message(fy.status).stream = "stderr"
    THEN [fy EXCEPT !.err = @ + 1]
    ELSE [fy EXCEPT !.out = @ + 1]

\* should_skip with the comparison inverted
should_skip_on_match(cmd, f) ==
    IF IsSome(cmd.distribution)
    THEN Unwrap(cmd.distribution) = identify_linux_distribution(f)
    ELSE FALSE

\* should_skip treating an unidentified host as matching no restriction
should_skip_unknown_host(cmd, f) ==
    IF IsSome(cmd.distribution)
    THEN \/ Unwrap(cmd.distribution) # identify_linux_distribution(f)
         \/ identify_linux_distribution(f) = "Unknown"
    ELSE FALSE

\* CommandStruct::should_skip
should_skip(cmd, f) ==
    IF IsSome(cmd.distribution)
    THEN Unwrap(cmd.distribution) # identify_linux_distribution(f)
    ELSE FALSE

\* The interpreter CommandStruct::run_command and spawn_command start
Interpreter(cmd) ==
    ShellToString(IF IsSome(cmd.shell) THEN Unwrap(cmd.shell) ELSE ShellDefault)

\* handle_command_error looking for the words "not found" alone
handle_command_error_not_found(stderr) ==
    IF Contains(stderr, <<"not", "found">>) THEN "NotFound" ELSE "Other"

\* CommandStruct::handle_command_error: the io::ErrorKind of the error
handle_command_error(stderr) ==
    IF Contains(stderr, COMMAND_NOT_FOUND) THEN "NotFound" ELSE "Other"

\* CommandStruct::execute_command: o is what run_command's output() gives.
\* res is <<"Ok">> or <<"Err", kind>>; invoked says whether the Shell
\* Invoker was called.
execute_command(cmd, f, o) ==
    LET fx == Effects(cmd.status) IN
    IF should_skip(cmd, f)
    THEN [fx |-> replace(fx, "Skipped"), res |-> <<"Ok">>, invoked |-> FALSE]
    ELSE IF o.err
    THEN [fx |-> fx, res |-> <<"Err", "Io">>, invoked |-> TRUE]
    ELSE IF success(o.code)
    THEN [fx |-> set_status(fx, "Success"), res |-> <<"Ok">>, invoked |-> TRUE]
    ELSE [fx |-> set_status(fx, "Failure"),
          res |-> <<"Err", handle_command_error(o.stderr)>>, invoked |-> TRUE]

\* run() whose Err arm reports the error and hands back the cell as it is
CommandStruct_run_unhandled(cmd, f, o) ==
    LET x == execute_command(cmd, f, o) IN
    IF x.res[1] = "Ok"
    THEN [fx |-> x.fx, ret |-> x.fx.status, invoked |-> x.invoked, error |-> None]
    ELSE [fx |-> [x.fx EXCEPT !.elines = @ + 1],
          ret |-> x.fx.status, invoked |-> x.invoked, error |-> Some(x.res[2])]

\* impl CommandRunner for CommandStruct: run
CommandStruct_run(cmd, f, o) ==
    LET x == execute_command(cmd, f, o) IN
    IF x.res[1] = "Ok"
    THEN [fx |-> x.fx, ret |-> x.fx.status, invoked |-> x.invoked, error |-> None]
    ELSE [fx |-> [set_status(x.fx, "Failure") EXCEPT !.elines = @ + 1],
          ret |-> "Failure", invoked |-> x.invoked, error |-> Some(x.res[2])]

\* handle_status taking "no exit code" for a clean exit
handle_status_signal_ok(fx, code) ==
    IF IsSome(code) /\ code # Some(0) THEN set_status(fx, "Failure")
    ELSE set_status(fx, "Success")

\* CommandStruct::handle_status
handle_status(fx, code) ==
    IF code = Some(0) THEN set_status(fx, "Success")
    ELSE IF IsSome(code) THEN set_status(fx, "Failure")
    ELSE set_status(fx, "Failure")

\* CommandStruct::interact_mode: o is what spawn() and wait() give
interact_mode(cmd, f, o) ==
    LET fx == Effects(cmd.status) IN
    IF should_skip(cmd, f)
    THEN LET fy == replace(fx, "Skipped") IN
         [fx |-> fy, ret |-> fy.status, invoked |-> FALSE, error |-> None]
    ELSE IF o.spawn_err
    THEN LET fy == set_status(fx, "Failure") IN
         [fx |-> fy, ret |-> fy.status, invoked |-> TRUE, error |-> None]
    ELSE IF o.wait_err
    THEN LET fy == set_status(fx, "Failure") IN
         [fx |-> fy, ret |-> fy.status, invoked |-> TRUE, error |-> None]
    ELSE LET fy == handle_status(fx, o.code) IN
         [fx |-> fy, ret |-> fy.status, invoked |-> TRUE, error |-> None]

\* The closure SetupEntry::run and ConfigItem::apply hand to validate_command
stdout_not_empty(o) == o.stdout # <<>>

\* CommandStruct::validate_command: <<"Err">> or <<"Ok", satisfied>>
validate_command(o) ==
    IF o.err THEN <<"Err">>
    ELSE <<"Ok", success(o.code) /\ stdout_not_empty(o)>>

\* ---------------------------------------------------------------- ConfigItem
\* apply without the "return" of its Ok(true) arm: a satisfied check falls
\* through to the delegation
apply_falls_through(cfg, f, probe, o) ==
    LET v == IF IsSome(cfg.check) THEN validate_command(probe) ELSE <<"Ok", FALSE>>
        idle == Effects(cfg.command.status) IN
    IF IsSome(cfg.check) /\ v[1] = "Err"
    THEN [fx |-> idle, ret |-> "Failure", invoked |-> FALSE, error |-> None,
          probed |-> TRUE, delegated |-> FALSE, lines |-> [out |-> 0, err |-> 1]]
    ELSE LET r == interact_mode(cfg.command, f, o) IN
         [fx |-> r.fx, ret |-> r.ret, invoked |-> r.invoked, error |-> r.error,
          probed |-> IsSome(cfg.check), delegated |-> TRUE,
          lines |-> [out |-> 1, err |-> 0]]

\* apply calling interact_mode for its effect only and returning Success
apply_drops_status(cfg, f, probe, o) ==
    LET v == IF IsSome(cfg.check) THEN validate_command(probe) ELSE <<"Ok", FALSE>>
        idle == Effects(cfg.command.status) IN
    IF IsSome(cfg.check) /\ v[1] = "Ok" /\ v[2]
    THEN [fx |-> idle, ret |-> "Success", invoked |-> FALSE, error |-> None,
          probed |-> TRUE, delegated |-> FALSE, lines |-> [out |-> 0, err |-> 0]]
    ELSE IF IsSome(cfg.check) /\ v[1] = "Err"
    THEN [fx |-> idle, ret |-> "Failure", invoked |-> FALSE, error |-> None,
          probed |-> TRUE, delegated |-> FALSE, lines |-> [out |-> 0, err |-> 1]]
    ELSE LET r == interact_mode(cfg.command, f, o) IN
         [fx |-> r.fx, ret |-> "Success", invoked |-> r.invoked, error |-> r.error,
          probed |-> IsSome(cfg.check), delegated |-> TRUE,
          lines |-> [out |-> 1, err |-> 0]]

\* apply taking the error of its probe for a check that is not satisfied
apply_ignores_probe_error(cfg, f, probe, o) ==
    LET v == IF IsSome(cfg.check) THEN validate_command(probe) ELSE <<"Ok", FALSE>>
        idle == Effects(cfg.command.status) IN
    IF IsSome(cfg.check) /\ v[1] = "Ok" /\ v[2]
    THEN [fx |-> idle, ret |-> "Success", invoked |-> FALSE, error |-> None,
          probed |-> TRUE, delegated |-> FALSE, lines |-> [out |-> 0, err |-> 0]]
    ELSE LET r == interact_mode(cfg.command, f, o) IN
         [fx |-> r.fx, ret |-> r.ret, invoked |-> r.invoked, error |-> r.error,
          probed |-> IsSome(cfg.check), delegated |-> TRUE,
          lines |-> [out |-> 1, err |-> 0]]

\* impl Configurator for ConfigItem: apply.  probe is the outcome of the
\* check's validate_command, o the outcome of the wrapped unit's spawn.
\* probed / delegated say whether the check was evaluated and whether
\* interact_mode was called.
apply(cfg, f, probe, o) ==
    LET v == IF IsSome(cfg.check) THEN validate_command(probe) ELSE <<"Ok", FALSE>>
        idle == Effects(cfg.command.status) IN
    IF IsSome(cfg.check) /\ v[1] = "Ok" /\ v[2]
    THEN [fx |-> idle, ret |-> "Success", invoked |-> FALSE, error |-> None,
          probed |-> TRUE, delegated |-> FALSE, lines |-> [out |-> 0, err |-> 0]]
    ELSE IF IsSome(cfg.check) /\ v[1] = "Err"
    THEN [fx |-> idle, ret |-> "Failure", invoked |-> FALSE, error |-> None,
          probed |-> TRUE, delegated |-> FALSE, lines |-> [out |-> 0, err |-> 1]]
    ELSE LET r == interact_mode(cfg.command, f, o) IN
         [fx |-> r.fx, ret |-> r.ret, invoked |-> r.invoked, error |-> r.error,
          probed |-> IsSome(cfg.check), delegated |-> TRUE,
          lines |-> [out |-> 1, err |-> 0]]

\* ----------------------------------------------------------- aggregation
\* The tail of run_commands / run_configs / CommandRepository::run /
\* ConfigRepository::run: failed is the count the filter produced.
Aggregate(failed) == IF failed > 0 THEN "Failure" ELSE "Success"

\* The filter's predicate counting every child that did not succeed
CountsUnlessSuccess(ret) == ret # "Success"

\* The filter's predicate: a child counts when it returned Failure
CountsAsFailed(ret) == ret = "Failure"

\* ------------------------------------------------------------- input sets
\* The Command Units the model builds its lists from: every distribution
\* restriction and every kind of shell occurs.
CommandPool ==
    { [command |-> "echo Hello", shell |-> None, distribution |-> None,
       status |-> StatusDefault],
      [command |-> "apt update", shell |-> Some(<<"Zsh">>), distribution |-> Some("Ubuntu"),
       status |-> StatusDefault],
      [command |-> "uname -a", shell |-> Some(<<"Custom", "fish">>),
       distribution |-> Some("Unknown"), status |-> StatusDefault] }

ConfigPool ==
    { [check |-> None,
       command |-> [command |-> "nvim", shell |-> None, distribution |-> None,
                    status |-> StatusDefault]],
      [check |-> Some("test -f ~/.zshrc"),
       command |-> [command |-> "chsh", shell |-> Some(<<"Bash">>),
                    distribution |-> Some("Ubuntu"), status |-> StatusDefault]] }

\* The process environment and the directories present at the start
\* LEGACY is set to bytes that are not valid Unicode
InitialEnv == {"HOME", "LEGACY"}
InitialNonUnicode == {"LEGACY"}
InitialDirs == {"/tmp"}

SetupPool ==
    { None,
      Some([env_vars |-> Some(<<"HOME", "TOKEN">>), working_dir |-> Some("/opt/app")]) }

CommandLists == UNION { [1..n -> CommandPool] : n \in 0..MaxCommands }
ConfigLists  == UNION { [1..n -> ConfigPool] : n \in 0..MaxConfigs }

\* Every entry over the pools
Entries ==
    { [check |-> c, commands |-> cs, configs |-> cf, setup |-> st, description |-> "entry"] :
        c \in {None, Some("which nvim")},
        cs \in CommandLists,
        cf \in {None} \cup { Some(l) : l \in ConfigLists },
        st \in SetupPool }

\* The entries of the registries that hold several entries
EntryPool ==
    { [check |-> None,
       commands |-> << [command |-> "echo Hello", shell |-> None, distribution |-> None,
                        status |-> StatusDefault] >>,
       configs |-> None,
       setup |-> Some([env_vars |-> None, working_dir |-> Some("/tmp")]),
       description |-> "plain"],
      [check |-> Some("which nvim"),
       commands |-> << [command |-> "apt update", shell |-> Some(<<"Zsh">>),
                        distribution |-> Some("Ubuntu"), status |-> StatusDefault] >>,
       configs |-> Some(<< [check |-> Some("test -f ~/.zshrc"),
                            command |-> [command |-> "nvim", shell |-> None,
                                         distribution |-> None,
                                         status |-> StatusDefault]] >>),
       setup |-> Some([env_vars |-> Some(<<"LEGACY", "A=B">>),
                       working_dir |-> Some("/opt/app")]),
       description |-> "guarded"] }

\* A registry holds one entry of any shape, or up to MaxEntries pool entries
Registries ==
    { <<e>> : e \in Entries } \cup UNION { [1..n -> EntryPool] : n \in 0..MaxEntries }

\* What the user types as the value of a variable: plain text, or text
\* that holds a NUL byte (trim() leaves it in)
EnteredValues == {"v", "a<NUL>b"}

\* std::env::set_var panics for a name that is empty or holds '=' or NUL
\* and for a value that holds NUL
set_var_panics(name, value) ==
    name \in {"", "A=B"} \/ value = "a<NUL>b"

\* std::env::var(name).is_err(): the variable is not set, or it is set to
\* a value that is not valid Unicode
env_var_is_err(name, set, opaque) == name \notin set \/ name \in opaque

\* What the user types at the confirmation prompt (None: stdin fails)
PromptAnswers == {None, Some("y"), Some("Y"), Some("n")}

\* str::to_lowercase on the answers
to_lowercase(t) == IF t = "Y" THEN "y" ELSE t

\* ------------------------------------------------------------------- state
VARIABLES
    object,     \* which object the caller built: registry, repository or runner
    files,      \* what LinuxDistributor::check reads on this host
    env,        \* the variables set in the process environment
    non_unicode, \* those of them whose value is not valid Unicode
    dirs,       \* the directories that exist
    entries,    \* SetupRegistry.entries
    loaded,     \* the entries as the caller built them and add() took them:
                \* what execute() or setup() is called on
    commands,   \* CommandRepository.commands
    configs,    \* ConfigRepository.configs
    op,         \* the top-level call in progress
    pc,         \* the position inside it
    cur,        \* the index of the entry being run or set up
    idx,        \* the loop index of the phase in progress
    process,    \* SetupEntry::run's local "process"
    failed,     \* the count the running filter has reached
    phase,      \* what the phases of the current entry produced
    returned,   \* the statuses the calls on entries / repositories returned
    runner,     \* the ProcessRunner calls made so far
    log,        \* every unit call and Shell Invoker call, in order
    last        \* the most recent unit call: its outcome and effects

world == <<object, files, env, non_unicode, dirs, loaded>>
units == <<entries, commands, configs>>
ctl   == <<op, pc, cur, idx, process, failed>>
hist  == <<phase, returned, log, last>>
vars  == <<object, files, env, non_unicode, dirs, entries, loaded, commands, configs, op, pc, cur,
           idx, process, failed, phase, returned, runner, log, last>>

NoPhase == [guard |-> FALSE, cmd |-> None, cfg |-> None,
            cmd_rets |-> <<>>, cfg_rets |-> <<>>]

NoCall == [unit |-> <<"none">>, ret |-> "Normal", fx |-> Effects(StatusDefault),
           invoked |-> FALSE, error |-> None, probe |-> None, capture |-> None,
           spawn |-> None, delegated |-> FALSE]

NoRunner == [execs |-> 0, before |-> None, ran |-> 0, aftered |-> 0,
             status |-> None, after |-> None, rets |-> <<>>, befores |-> <<>>,
             runs |-> 0]

\* A log entry: a call on a unit, or (ev = "sh") a call of the Shell Invoker
\* on behalf of a unit, for its check ("probe") or its command ("payload")
Ev(ev, unit, mode, shell) ==
    [ev |-> ev, unit |-> unit, what |-> "-", mode |-> mode, shell |-> shell]

Sh(unit, what, mode, shell) ==
    [ev |-> "sh", unit |-> unit, what |-> what, mode |-> mode, shell |-> shell]

Init ==
    /\ files \in HostFiles
    /\ env = InitialEnv
    /\ non_unicode = InitialNonUnicode
    /\ dirs = InitialDirs
    /\ \/ object = "SetupRegistry" /\ entries \in Registries
          /\ commands = <<>> /\ configs = <<>>
       \/ object = "CommandRepository" /\ commands \in CommandLists
          /\ entries = <<>> /\ configs = <<>>
       \/ object = "ConfigRepository" /\ configs \in ConfigLists
          /\ entries = <<>> /\ commands = <<>>
       \/ object = "ProcessRunner"
          /\ entries = <<>> /\ commands = <<>> /\ configs = <<>>
    /\ loaded = entries
    /\ op = "none"
    /\ pc = "idle"
    /\ cur = 0
    /\ idx = 0
    /\ process = "Normal"
    /\ failed = 0
    /\ phase = NoPhase
    /\ returned = <<>>
    /\ runner = NoRunner
    /\ log = <<>>
    /\ last = NoCall

\* ----------------------------------------------------- SetupEntry: pruning
\* A removal that takes the element after the one asked for
remove_command_after(cmds, index) ==
    LET at == IF index < Len(cmds) THEN index + 1 ELSE index IN
    [k \in 1..(Len(cmds) - 1) |-> IF k < at THEN cmds[k] ELSE cmds[k + 1]]

\* Vec::remove panics for an index outside the list
remove_command_panics(cmds, index) == index \notin 1..Len(cmds)

\* Vec::remove, indices counted from 1; the list is left as it was when
\* the call panics
remove_command(cmds, index) ==
    IF remove_command_panics(cmds, index) THEN cmds
    ELSE [k \in 1..(Len(cmds) - 1) |-> IF k < index THEN cmds[k] ELSE cmds[k + 1]]

\* The first loop of clear_commands leaving at the first index it pushes
commands_to_remove_first(cmds, f, k) ==
    LET skipped == { i \in k..Len(cmds) : should_skip(cmds[i], f) } IN
    IF skipped = {} THEN <<>>
    ELSE << CHOOSE i \in skipped : \A j \in skipped : i <= j >>

\* The first loop of clear_commands: the indices should_skip selects, ascending
RECURSIVE commands_to_remove(_, _, _)
commands_to_remove(cmds, f, k) ==
    IF k > Len(cmds) THEN <<>>
    ELSE IF should_skip(cmds[k], f)
         THEN <<k>> \o commands_to_remove(cmds, f, k + 1)
         ELSE commands_to_remove(cmds, f, k + 1)

\* The second loop of clear_commands: remove them, last index first
RECURSIVE remove_rev(_, _, _)
remove_rev(cmds, indices, n) ==
    IF n = 0 \/ remove_command_panics(cmds, indices[n]) THEN cmds
    ELSE remove_rev(remove_command(cmds, indices[n]), indices, n - 1)

\* Whether a removal of the second loop panics
RECURSIVE remove_rev_panics(_, _, _)
remove_rev_panics(cmds, indices, n) ==
    IF n = 0 THEN FALSE
    ELSE \/ remove_command_panics(cmds, indices[n])
         \/ remove_rev_panics(remove_command(cmds, indices[n]), indices, n - 1)

\* SetupEntry::clear_commands
clear_commands(cmds, f) ==
    LET indices == commands_to_remove(cmds, f, 1) IN
    remove_rev(cmds, indices, Len(indices))

\* Whether clear_commands ends in the panic of a removal
clear_commands_panics(cmds, f) ==
    LET indices == commands_to_remove(cmds, f, 1) IN
    remove_rev_panics(cmds, indices, Len(indices))

\* --------------------------------------------------- SetupEntry::run pieces
\* A guard that takes the error of its probe for a failure of the entry
GuardProcessErrFails(entry, probe) ==
    LET v == validate_command(probe) IN
    IF ~IsSome(entry.check) THEN "Running"
    ELSE IF v[1] # "Ok" THEN "Failure"
    ELSE IF v[2] THEN "Success" ELSE "Running"

\* The guard of SetupEntry::run: the value of "process" after the check
GuardProcess(entry, probe) ==
    LET v == validate_command(probe) IN
    IF IsSome(entry.check) /\ v[1] = "Ok" /\ v[2] THEN "Success" ELSE "Running"

\* run_commands called unless "process" is already Failure
RunsCommandsUnlessFailure(p) == p # "Failure"

\* "if process != Status::Success": whether run_commands is called
RunsCommands(p) == p # "Success"

\* run_configs called whatever "process" holds
RunsConfigsAlways(entry, p) == IsSome(entry.configs)

\* run_configs called only after run_commands was: a satisfied check
\* returns at once
RunsConfigsAfterCommands(entry, p) ==
    IsSome(entry.configs) /\ p # "Failure" /\ pc = "commands"

\* "if self.configs.is_some() && process != Status::Failure"
RunsConfigs(entry, p) == IsSome(entry.configs) /\ p # "Failure"

\* ------------------------------------------- direct calls on an entry
\* The caller that owns entry e calls its public remove_command(i - 1)
\* before it hands the entry on; an index outside the list panics
RemoveCommand(e, i) ==
    /\ object = "SetupRegistry"
    /\ op = "none"
    /\ pc = "idle"
    /\ entries' = [entries EXCEPT ![e].commands = remove_command(@, i)]
    /\ loaded' = entries'
    /\ pc' = IF remove_command_panics(entries[e].commands, i) THEN "panic" ELSE "idle"
    /\ UNCHANGED <<object, files, env, non_unicode, dirs, commands, configs, op, cur,
                   idx, process, failed, hist, runner>>

\* The caller that owns entry e calls its public clear_commands()
ClearCommandsCall(e) ==
    /\ object = "SetupRegistry"
    /\ op = "none"
    /\ pc = "idle"
    /\ entries' = [entries EXCEPT ![e].commands = clear_commands(@, files)]
    /\ loaded' = entries'
    /\ pc' = IF clear_commands_panics(entries[e].commands, files)
             THEN "panic" ELSE "idle"
    /\ UNCHANGED <<object, files, env, non_unicode, dirs, commands, configs, op, cur,
                   idx, process, failed, hist, runner>>

\* --------------------------------------------------------- top-level calls
\* execute pruning the command lists of its entries before its loop
ExecutePruning ==
    /\ object = "SetupRegistry"
    /\ pc = "idle"
    /\ op' = "execute"
    /\ entries' = [e \in 1..Len(entries) |->
                     [entries[e] EXCEPT !.commands = clear_commands(@, files)]]
    /\ IF entries = <<>>
       THEN pc' = "done" /\ cur' = 0
       ELSE pc' = "guard" /\ cur' = 1
    /\ UNCHANGED <<world, commands, configs, idx, process, failed, hist, runner>>

\* SetupRegistry::execute begins: the loop reaches its first entry
Execute ==
    /\ object = "SetupRegistry"
    /\ pc = "idle"
    /\ op' = "execute"
    /\ IF entries = <<>>
       THEN pc' = "done" /\ cur' = 0
       ELSE pc' = "guard" /\ cur' = 1
    /\ UNCHANGED <<world, units, idx, process, failed, hist, runner>>

\* setup() going to the preconditions without its clear_commands
SetupWithoutPruning(e) ==
    /\ object = "SetupRegistry"
    /\ pc = "idle"
    /\ op' = "setup"
    /\ cur' = e
    /\ pc' = "workdir"
    /\ UNCHANGED <<world, units, idx, process, failed, hist, runner>>

\* ExecutableSetup::setup is called on entry e
Setup(e) ==
    /\ object = "SetupRegistry"
    /\ pc = "idle"
    /\ op' = "setup"
    /\ cur' = e
    /\ pc' = "prune"
    /\ UNCHANGED <<world, units, idx, process, failed, hist, runner>>

\* setup(): self.clear_commands()
ClearCommands ==
    /\ pc = "prune"
    /\ entries' = [entries EXCEPT ![cur].commands = clear_commands(@, files)]
    /\ log' = Append(log, Ev("clear_commands", <<"entry", cur>>, "-", "-"))
    /\ pc' = IF clear_commands_panics(entries[cur].commands, files)
             THEN "panic" ELSE "workdir"
    /\ UNCHANGED <<world, commands, configs, op, cur, idx, process, failed,
                   phase, returned, last, runner>>

\* setup() reporting the error of ensure_working_dir and going on
EnsureWorkingDirGoesOn ==
    /\ pc = "workdir"
    /\ LET st == entries[cur].setup IN
       IF ~IsSome(st)
       THEN /\ pc' = "guard"
            /\ UNCHANGED <<dirs, returned, log, idx>>
       ELSE LET dir == Unwrap(st).working_dir IN
            IF ~IsSome(dir) \/ Unwrap(dir) \in dirs
            THEN /\ pc' = "envvars"
                 /\ idx' = 1
                 /\ log' = Append(log, Ev("ensure_working_dir", <<"entry", cur>>, "-", "-"))
                 /\ UNCHANGED <<dirs, returned>>
            ELSE \E created \in BOOLEAN :
                    /\ log' = Append(log, Ev("ensure_working_dir", <<"entry", cur>>, "-", "-"))
                    /\ IF created
                       THEN /\ dirs' = dirs \cup {Unwrap(dir)}
                            /\ pc' = "envvars"
                            /\ idx' = 1
                            /\ UNCHANGED returned
                       ELSE /\ pc' = "envvars"
                            /\ idx' = 1
                            /\ UNCHANGED <<dirs, returned>>
    /\ UNCHANGED <<object, files, env, non_unicode, loaded, units, op, cur, process,
                   failed, phase, last, runner>>

\* setup(): SetupItem::ensure_working_dir; an error returns Failure
EnsureWorkingDir ==
    /\ pc = "workdir"
    /\ LET st == entries[cur].setup IN
       IF ~IsSome(st)
       THEN /\ pc' = "guard"
            /\ UNCHANGED <<dirs, returned, log, idx>>
       ELSE LET dir == Unwrap(st).working_dir IN
            IF ~IsSome(dir) \/ Unwrap(dir) \in dirs
            THEN /\ pc' = "envvars"
                 /\ idx' = 1
                 /\ log' = Append(log, Ev("ensure_working_dir", <<"entry", cur>>, "-", "-"))
                 /\ UNCHANGED <<dirs, returned>>
            ELSE \E created \in BOOLEAN :
                    /\ log' = Append(log, Ev("ensure_working_dir", <<"entry", cur>>, "-", "-"))
                    /\ IF created
                       THEN /\ dirs' = dirs \cup {Unwrap(dir)}
                            /\ pc' = "envvars"
                            /\ idx' = 1
                            /\ UNCHANGED returned
                       ELSE /\ returned' = Append(returned, "Failure")
                            /\ pc' = "done"
                            /\ UNCHANGED <<dirs, idx>>
    /\ UNCHANGED <<object, files, env, non_unicode, loaded, units, op, cur, process,
                   failed, phase, last, runner>>

\* setup(): SetupItem::ensure_env_vars, one variable of the loop per step
EnsureEnvVars ==
    /\ pc = "envvars"
    /\ LET vs == Unwrap(entries[cur].setup).env_vars IN
       IF ~IsSome(vs) \/ idx > Len(Unwrap(vs))
       THEN /\ pc' = "guard"
            /\ UNCHANGED <<env, non_unicode, returned, log, idx>>
       ELSE LET v == Unwrap(vs)[idx] IN
            IF ~env_var_is_err(v, env, non_unicode)
            THEN /\ idx' = idx + 1
                 /\ UNCHANGED <<env, non_unicode, returned, log, pc>>
            ELSE \E value \in EnteredValues, answer \in PromptAnswers :
                    /\ log' = Append(log, Ev("prompt", <<"entry", cur>>,
                                              IF IsSome(answer)
                                              THEN to_lowercase(Unwrap(answer))
                                              ELSE "error", v))
                    /\ IF ~IsSome(answer)
                       THEN /\ returned' = Append(returned, "Failure")
                            /\ pc' = "done"
                            /\ UNCHANGED <<env, non_unicode, idx>>
                       ELSE IF to_lowercase(Unwrap(answer)) # "y"
                       THEN /\ idx' = idx + 1
                            /\ UNCHANGED <<env, non_unicode, returned, pc>>
                       ELSE IF set_var_panics(v, value)
                       THEN /\ pc' = "panic"
                            /\ UNCHANGED <<env, non_unicode, returned, idx>>
                       ELSE /\ env' = env \cup {v}
                            /\ non_unicode' = non_unicode \ {v}
                            /\ idx' = idx + 1
                            /\ UNCHANGED <<returned, pc>>
    /\ UNCHANGED <<object, files, dirs, loaded, units, op, cur, process, failed, phase,
                   last, runner>>

\* validate_command starting bash
ProbeInterpreterBash == "bash"

\* The interpreter validate_command starts, whatever the unit configures
ProbeInterpreter == "sh"

\* An iterator that visits a child again when it returned Failure
NextChildRetry(i, n, ret) == IF ret = "Failure" THEN i ELSE i + 1

\* An iterator that stops at the first child that returned Failure
NextChildUntilFailure(i, n, ret) == IF ret = "Failure" THEN n + 1 ELSE i + 1

\* The iterator of the filter(..).count() chains: the child visited after
\* child i of n, given what child i returned
NextChild(i, n, ret) == i + 1

Call(unit, r, probe, capture, spawn, delegated) ==
    [unit |-> unit, ret |-> r.ret, fx |-> r.fx, invoked |-> r.invoked,
     error |-> r.error, probe |-> probe, capture |-> capture, spawn |-> spawn,
     delegated |-> delegated]

\* The log entries of one CommandStruct::run; the last one is the
\* eprintln!("Error: {}", e) of its Err arm, with the kind of e
RunEvents(unit, cmd, r) ==
    <<Ev("run", unit, "-", "-")>>
    \o (IF r.invoked THEN <<Sh(unit, "payload", "capture", Interpreter(cmd))>> ELSE <<>>)
    \o (IF IsSome(r.error) THEN <<Ev("eprintln", unit, "-", Unwrap(r.error))>> ELSE <<>>)

\* The log entries of one ConfigItem::apply
ApplyEvents(unit, cfg, r) ==
    <<Ev("apply", unit, "-", "-")>>
    \o (IF r.probed
        THEN <<Ev("validate_command", unit, "-", "-"),
               Sh(unit, "probe", "capture", ProbeInterpreter)>>
        ELSE <<>>)
    \o (IF r.delegated THEN <<Ev("interact_mode", unit, "-", "-")>> ELSE <<>>)
    \o (IF r.invoked
        THEN <<Sh(unit, "payload", "spawn", Interpreter(cfg.command))>> ELSE <<>>)

\* What a step draws from the Shell Invoker when it may not need it
Probes(chk) == IF IsSome(chk) THEN ProbeOutcomes ELSE {IoError}

\* SetupEntry::run: "process = Running" and the check
RunGuard ==
    /\ pc = "guard"
    /\ LET entry == entries[cur] IN
       \E probe \in Probes(entry.check) :
          LET p == GuardProcess(entry, probe) IN
          /\ process' = p
          /\ phase' = [NoPhase EXCEPT !.guard = (p = "Success")]
          /\ log' = IF IsSome(entry.check)
                    THEN log \o <<Ev("validate_command", <<"entry", cur>>, "-", "-"),
                                  Sh(<<"entry", cur>>, "probe", "capture",
                                     ProbeInterpreter)>>
                    ELSE log
          /\ last' = [NoCall EXCEPT !.unit = <<"entry", cur>>, !.ret = p,
                                    !.invoked = IsSome(entry.check),
                                    !.probe = IF IsSome(entry.check) THEN Some(probe) ELSE None]
          /\ pc' = IF RunsCommands(p) THEN "commands"
                   ELSE IF RunsConfigs(entry, p) THEN "configs" ELSE "return"
          /\ idx' = 1
          /\ failed' = 0
    /\ UNCHANGED <<world, units, op, cur, returned, runner>>

\* SetupEntry::run_commands: the filter runs one command
RunCommandsStep ==
    /\ pc = "commands"
    /\ idx <= Len(entries[cur].commands)
    /\ LET cmd == entries[cur].commands[idx]
           unit == <<"cmd", cur, idx>> IN
       \E o \in CaptureOutcomes :
          LET r == CommandStruct_run(cmd, files, o) IN
          /\ entries' = [entries EXCEPT ![cur].commands[idx].status = r.fx.status]
          /\ failed' = IF CountsAsFailed(r.ret) THEN failed + 1 ELSE failed
          /\ idx' = NextChild(idx, Len(entries[cur].commands), r.ret)
          /\ phase' = [phase EXCEPT !.cmd_rets = Append(@, r.ret)]
          /\ log' = log \o RunEvents(unit, cmd, r)
          /\ last' = Call(unit, r, None, IF r.invoked THEN Some(o) ELSE None, None, FALSE)
    /\ UNCHANGED <<world, commands, configs, op, pc, cur, process, returned, runner>>

\* SetupEntry::run_commands returns; run() decides about the configs
RunCommandsEnd ==
    /\ pc = "commands"
    /\ idx > Len(entries[cur].commands)
    /\ process' = Aggregate(failed)
    /\ phase' = [phase EXCEPT !.cmd = Some(Aggregate(failed))]
    /\ pc' = IF RunsConfigs(entries[cur], Aggregate(failed)) THEN "configs" ELSE "return"
    /\ idx' = 1
    /\ failed' = 0
    /\ UNCHANGED <<world, units, op, cur, returned, log, last, runner>>

\* SetupEntry::run_configs: the filter applies one config
RunConfigsStep ==
    /\ pc = "configs"
    /\ idx <= Len(Unwrap(entries[cur].configs))
    /\ LET cfg == Unwrap(entries[cur].configs)[idx]
           unit == <<"cfg", cur, idx>> IN
       \E probe \in Probes(cfg.check), o \in SpawnOutcomes :
          LET r == apply(cfg, files, probe, o) IN
          /\ entries' = [entries EXCEPT
                           ![cur].configs[1][idx].command.status = r.fx.status]
          /\ failed' = IF CountsAsFailed(r.ret) THEN failed + 1 ELSE failed
          /\ idx' = NextChild(idx, Len(Unwrap(entries[cur].configs)), r.ret)
          /\ phase' = [phase EXCEPT !.cfg_rets = Append(@, r.ret)]
          /\ log' = log \o ApplyEvents(unit, cfg, r)
          /\ last' = Call(unit, r, IF r.probed THEN Some(probe) ELSE None, None,
                          IF r.invoked THEN Some(o) ELSE None, r.delegated)
    /\ UNCHANGED <<world, commands, configs, op, pc, cur, process, returned, runner>>

\* run() calling run_configs without assigning its result to "process"
RunConfigsEndDropsStatus ==
    /\ pc = "configs"
    /\ idx > Len(Unwrap(entries[cur].configs))
    /\ phase' = [phase EXCEPT !.cfg = Some(Aggregate(failed))]
    /\ pc' = "return"
    /\ idx' = 1
    /\ failed' = 0
    /\ UNCHANGED <<world, units, op, cur, process, returned, log, last, runner>>

\* SetupEntry::run_configs returns
RunConfigsEnd ==
    /\ pc = "configs"
    /\ idx > Len(Unwrap(entries[cur].configs))
    /\ process' = Aggregate(failed)
    /\ phase' = [phase EXCEPT !.cfg = Some(Aggregate(failed))]
    /\ pc' = "return"
    /\ idx' = 1
    /\ failed' = 0
    /\ UNCHANGED <<world, units, op, cur, returned, log, last, runner>>

\* execute's loop leaving at the first entry that returned Failure
ReturnStopsAtFailure ==
    /\ pc = "return"
    /\ returned' = Append(returned, process)
    /\ IF op = "execute" /\ cur < Len(entries) /\ process # "Failure"
       THEN cur' = cur + 1 /\ pc' = "guard"
       ELSE cur' = cur /\ pc' = "done"
    /\ UNCHANGED <<world, units, op, idx, process, failed, phase, log, last, runner>>

\* SetupEntry::run returns "process"; execute's loop goes on to the next
\* entry, setup returns what run returned
Return ==
    /\ pc = "return"
    /\ returned' = Append(returned, process)
    /\ IF op = "execute" /\ cur < Len(entries)
       THEN cur' = cur + 1 /\ pc' = "guard"
       ELSE cur' = cur /\ pc' = "done"
    /\ UNCHANGED <<world, units, op, idx, process, failed, phase, log, last, runner>>

\* ------------------------------------------------------------ repositories
\* CommandRepository::run begins
CommandRepositoryRun ==
    /\ object = "CommandRepository"
    /\ pc = "idle"
    /\ op' = "command_repository"
    /\ pc' = "repo_commands"
    /\ idx' = 1
    /\ failed' = 0
    /\ UNCHANGED <<world, units, cur, process, hist, runner>>

\* CommandRepository::run: the filter runs one command
RepoCommandsStep ==
    /\ pc = "repo_commands"
    /\ idx <= Len(commands)
    /\ LET cmd == commands[idx]
           unit == <<"cmd", 0, idx>> IN
       \E o \in CaptureOutcomes :
          LET r == CommandStruct_run(cmd, files, o) IN
          /\ commands' = [commands EXCEPT ![idx].status = r.fx.status]
          /\ failed' = IF CountsAsFailed(r.ret) THEN failed + 1 ELSE failed
          /\ idx' = NextChild(idx, Len(commands), r.ret)
          /\ phase' = [phase EXCEPT !.cmd_rets = Append(@, r.ret)]
          /\ log' = log \o RunEvents(unit, cmd, r)
          /\ last' = Call(unit, r, None, IF r.invoked THEN Some(o) ELSE None, None, FALSE)
    /\ UNCHANGED <<world, entries, configs, op, pc, cur, process, returned, runner>>

\* CommandRepository::run returns the aggregate
RepoCommandsEnd ==
    /\ pc = "repo_commands"
    /\ idx > Len(commands)
    /\ phase' = [phase EXCEPT !.cmd = Some(Aggregate(failed))]
    /\ returned' = Append(returned, Aggregate(failed))
    /\ pc' = "done"
    /\ UNCHANGED <<world, units, op, cur, idx, process, failed, log, last, runner>>

\* ConfigRepository::run begins
ConfigRepositoryRun ==
    /\ object = "ConfigRepository"
    /\ pc = "idle"
    /\ op' = "config_repository"
    /\ pc' = "repo_configs"
    /\ idx' = 1
    /\ failed' = 0
    /\ UNCHANGED <<world, units, cur, process, hist, runner>>

\* ConfigRepository::run: the filter applies one config
RepoConfigsStep ==
    /\ pc = "repo_configs"
    /\ idx <= Len(configs)
    /\ LET cfg == configs[idx]
           unit == <<"cfg", 0, idx>> IN
       \E probe \in Probes(cfg.check), o \in SpawnOutcomes :
          LET r == apply(cfg, files, probe, o) IN
          /\ configs' = [configs EXCEPT ![idx].command.status = r.fx.status]
          /\ failed' = IF CountsAsFailed(r.ret) THEN failed + 1 ELSE failed
          /\ idx' = NextChild(idx, Len(configs), r.ret)
          /\ phase' = [phase EXCEPT !.cfg_rets = Append(@, r.ret)]
          /\ log' = log \o ApplyEvents(unit, cfg, r)
          /\ last' = Call(unit, r, IF r.probed THEN Some(probe) ELSE None, None,
                          IF r.invoked THEN Some(o) ELSE None, r.delegated)
    /\ UNCHANGED <<world, entries, commands, op, pc, cur, process, returned, runner>>

\* ConfigRepository::run returns the aggregate
RepoConfigsEnd ==
    /\ pc = "repo_configs"
    /\ idx > Len(configs)
    /\ phase' = [phase EXCEPT !.cfg = Some(Aggregate(failed))]
    /\ returned' = Append(returned, Aggregate(failed))
    /\ pc' = "done"
    /\ UNCHANGED <<world, units, op, cur, idx, process, failed, log, last, runner>>

\* ------------------------------------------------------------ ProcessRunner
\* The first match of execute without its Passed arm
ReturnsEarlyWithoutPassed(b) == b \in {"Failure", "Skipped"}

\* The first match of execute with its Failure arm alone
ReturnsEarlyOnFailure(b) == b = "Failure"

\* The first match of execute: the statuses of before_run it returns at once
ReturnsEarly(b) == b \in {"Passed", "Failure", "Skipped"}

\* The second match of execute handing on whatever after_run returned
AfterRunPassThrough(a) == a

\* The second match of execute, on what after_run returned
AfterRunResult(a) ==
    CASE a = "Passed"  -> "Passed"
      [] a = "Failure" -> "Failure"
      [] a = "Skipped" -> "Skipped"
      [] OTHER         -> "Success"

\* CommandRunner::run, the trait's default body
CommandRunner_run(is_run_spawn, oc, os) ==
    IF is_run_spawn
    THEN IF os.spawn_err THEN "Failure"
         ELSE IF os.wait_err THEN "Failure"
         ELSE IF success(os.code) THEN "Success" ELSE "Failure"
    ELSE IF oc.err THEN "Failure"
         ELSE IF success(oc.code) THEN "Success" ELSE "Failure"

\* ProcessRunner::execute begins: before_run() returns b
ProcessRunnerExecute ==
    /\ object = "ProcessRunner"
    /\ pc = "idle" \/ (pc = "done" /\ runner.execs < MaxExec)
    /\ op' = "execute_process"
    /\ \E b \in Status :
          /\ runner' = [runner EXCEPT !.execs = @ + 1, !.before = Some(b),
                                      !.befores = Append(@, b),
                                      !.ran = 0, !.aftered = 0, !.status = None,
                                      !.after = None,
                                      !.rets = IF ReturnsEarly(b) THEN Append(@, b) ELSE @]
          /\ pc' = IF ReturnsEarly(b) THEN "done" ELSE "proc_run"
    /\ UNCHANGED <<world, units, cur, idx, process, failed, hist>>

\* execute: print_pre_run_info(), then "let status = self.run()"
ProcessRunnerRun ==
    /\ pc = "proc_run"
    /\ \E spawn \in BOOLEAN, oc \in CaptureOutcomes, os \in SpawnOutcomes :
          runner' = [runner EXCEPT !.ran = @ + 1, !.runs = @ + 1,
                                   !.status = Some(CommandRunner_run(spawn, oc, os))]
    /\ pc' = "proc_after"
    /\ UNCHANGED <<world, units, op, cur, idx, process, failed, hist>>

\* execute: after_run(status) returns a, and the match maps it
ProcessRunnerAfter ==
    /\ pc = "proc_after"
    /\ \E a \in Status :
          runner' = [runner EXCEPT !.aftered = @ + 1, !.after = Some(a),
                                   !.rets = Append(@, AfterRunResult(a))]
    /\ pc' = "done"
    /\ UNCHANGED <<world, units, op, cur, idx, process, failed, hist>>

\* -------------------------------------------------------------------- spec
Next ==
    \/ \E e \in 1..Len(entries) :
          \E i \in 1..(Len(entries[e].commands) + 1) : RemoveCommand(e, i)
    \/ \E e \in 1..Len(entries) : ClearCommandsCall(e)
    \/ Execute
    \/ \E e \in 1..Len(entries) : Setup(e)
    \/ ClearCommands
    \/ EnsureWorkingDir
    \/ EnsureEnvVars
    \/ RunGuard
    \/ RunCommandsStep
    \/ RunCommandsEnd
    \/ RunConfigsStep
    \/ RunConfigsEnd
    \/ Return
    \/ CommandRepositoryRun
    \/ RepoCommandsStep
    \/ RepoCommandsEnd
    \/ ConfigRepositoryRun
    \/ RepoConfigsStep
    \/ RepoConfigsEnd
    \/ ProcessRunnerExecute
    \/ ProcessRunnerRun
    \/ ProcessRunnerAfter

Spec == Init /\ [][Next]_vars

\* ------------------------------------------- SetupRegistry::execute alone
\* The registry is built and execute() is the one call made on it.  The
\* program is one thread of blocking calls: a step that is enabled is
\* taken once the child it waits for has exited.
\* run() never reads the setup item of its entry, so the registries of one
\* entry are taken without one here, with at most MaxExecCommands commands.
ExecRegistries ==
    { <<e>> : e \in { x \in Entries : /\ x.setup = None
                                      /\ Len(x.commands) <= MaxExecCommands } }
       \cup UNION { [1..n -> EntryPool] : n \in 0..MaxEntries }

ExecInit == Init /\ object = "SetupRegistry" /\ entries \in ExecRegistries

ExecNext ==
    \/ Execute
    \/ RunGuard
    \/ RunCommandsStep
    \/ RunCommandsEnd
    \/ RunConfigsStep
    \/ RunConfigsEnd
    \/ Return

ExecSpec == ExecInit /\ [][ExecNext]_vars /\ WF_vars(ExecNext)

\* ------------------------------------------------ Status::print_message
\* The messages the calls of print_message are given
Messages == {"Test running", "echo Hello"}

\* The line one call of print_message writes
Line(s, message) ==
    [ev |-> "print", status |-> s, message |-> message,
     stream |-> print_message(s).stream, icon |-> print_message(s).icon,
     color |-> print_message(s).color]

\* A caller that only prints statuses
PrintInit ==
    /\ object = "Status"
    /\ files \in HostFiles
    /\ env = InitialEnv
    /\ non_unicode = InitialNonUnicode
    /\ dirs = InitialDirs
    /\ entries = <<>> /\ loaded = <<>> /\ commands = <<>> /\ configs = <<>>
    /\ op = "none"
    /\ pc = "idle"
    /\ cur = 0
    /\ idx = 0
    /\ process = "Normal"
    /\ failed = 0
    /\ phase = NoPhase
    /\ returned = <<>>
    /\ runner = NoRunner
    /\ log = <<>>
    /\ last = NoCall

\* status.print_message(message)
PrintMessage ==
    /\ object = "Status"
    /\ Len(log) < MaxPrints
    /\ \E s \in Status, message \in Messages :
          log' = Append(log, Line(s, message))
    /\ UNCHANGED <<world, units, ctl, phase, returned, last, runner>>

PrintNext == PrintMessage

PrintSpec == PrintInit /\ [][PrintNext]_vars

\* =================================================================== claims
\* The list the call in progress iterates, and the index its units carry
Owner == IF op \in {"command_repository", "config_repository"} THEN 0 ELSE cur

CurrentCommands ==
    IF op = "command_repository" THEN commands
    ELSE IF cur \in 1..Len(entries) THEN entries[cur].commands ELSE <<>>

CurrentConfigs ==
    IF op = "config_repository" THEN configs
    ELSE IF cur \in 1..Len(entries) /\ IsSome(entries[cur].configs)
         THEN Unwrap(entries[cur].configs) ELSE <<>>

\* The log entries of one kind that belong to entry e (0: the repository)
CallsOf(kind, e) == SelectSeq(log, LAMBDA ev : ev.ev = kind /\ ev.unit[2] = e)

\* The calls on units 1..n of one list, in list order, one each
InOrder(kind, tag, e, n) == [k \in 1..n |-> Ev(kind, <<tag, e, k>>, "-", "-")]

\* The Command Unit a log entry or a call names
UnitCommand(u) ==
    IF u[1] = "cmd"
    THEN IF u[2] = 0 THEN commands[u[3]] ELSE entries[u[2]].commands[u[3]]
    ELSE IF u[2] = 0 THEN configs[u[3]].command
         ELSE Unwrap(entries[u[2]].configs)[u[3]].command

\* The unit carries a restriction that differs from this host's distribution
Mismatch(cmd) ==
    /\ cmd.distribution # None
    /\ cmd.distribution # Some(identify_linux_distribution(files))

\* The phases of the current entry's run() are over
AfterRun == op \in {"execute", "setup"} /\ pc \in {"return", "done"}

\* C1: run_commands and CommandRepository::run run every Command Unit of
\* the list exactly once, in list order, whatever the earlier units
\* returned: while the loop is at child idx the runs so far are exactly
\* units 1..idx-1 in order, and once the phase is over they are exactly
\* units 1..n in order.
C1_EveryCommandRunOnceInOrder ==
    /\ pc \in {"commands", "repo_commands"} =>
          /\ CallsOf("run", Owner) = InOrder("run", "cmd", Owner, idx - 1)
          /\ Len(phase.cmd_rets) = idx - 1
    /\ (IsSome(phase.cmd) /\ pc \in {"configs", "return", "done"}) =>
          /\ CallsOf("run", Owner) = InOrder("run", "cmd", Owner, Len(CurrentCommands))
          /\ Len(phase.cmd_rets) = Len(CurrentCommands)

\* C1 witness: the first unit returned Failure and the second was run
C1_Witness ==
    /\ op = "execute"
    /\ IsSome(phase.cmd)
    /\ phase.cmd_rets = <<"Failure", "Success">>
    /\ Len(CallsOf("run", cur)) = 2

\* C2: the aggregate of a list of children is Failure exactly when at
\* least one child returned Failure, and Success otherwise (an empty list
\* and a list of Skipped / Success children included).
C2_AggregateFailureIffSomeChildFailed ==
    /\ IsSome(phase.cmd) =>
          Unwrap(phase.cmd) =
             IF \E k \in 1..Len(phase.cmd_rets) : phase.cmd_rets[k] = "Failure"
             THEN "Failure" ELSE "Success"
    /\ IsSome(phase.cfg) =>
          Unwrap(phase.cfg) =
             IF \E k \in 1..Len(phase.cfg_rets) : phase.cfg_rets[k] = "Failure"
             THEN "Failure" ELSE "Success"

\* C2 witness: a list whose children returned Skipped and Success only
\* aggregates to Success
C2_Witness ==
    /\ phase.cmd = Some("Success")
    /\ phase.cmd_rets = <<"Skipped", "Success">>

\* C3: when the command phase of an entry yields Failure, no config of the
\* entry is applied, the Shell Invoker is not called for any config, the
\* config phase does not run and the entry rests at Failure.
C3_FailedCommandsSkipConfigs ==
    (op \in {"execute", "setup"} /\ phase.cmd = Some("Failure")
        /\ pc \in {"configs", "return", "done"}) =>
       /\ pc # "configs"
       /\ phase.cfg = None
       /\ CallsOf("apply", cur) = <<>>
       /\ \A k \in 1..Len(log) : ~(log[k].unit[1] = "cfg" /\ log[k].unit[2] = cur)
       /\ process = "Failure"
       /\ pc = "done" => returned[Len(returned)] = "Failure"

\* C3 witness: an entry with a config lying in wait has finished with a
\* failed command phase
C3_Witness ==
    /\ op = "execute"
    /\ pc = "done"
    /\ phase.cmd = Some("Failure")
    /\ Len(CurrentConfigs) >= 1

\* C4: a Command Unit whose restriction is present and differs from the
\* host's distribution returns Skipped from run() and from interact_mode(),
\* its status cell holds Skipped, and the Shell Invoker is never called
\* for its command line.
C4_MismatchedUnitSkipped ==
    /\ (last.unit[1] = "cmd" \/ (last.unit[1] = "cfg" /\ last.delegated)) =>
          (Mismatch(UnitCommand(last.unit)) =>
              /\ last.ret = "Skipped"
              /\ UnitCommand(last.unit).status = "Skipped"
              /\ ~last.invoked
              /\ last.capture = None /\ last.spawn = None)
    /\ \A k \in 1..Len(log) :
          (log[k].ev = "sh" /\ log[k].what = "payload") =>
              ~Mismatch(UnitCommand(log[k].unit))

\* C4 witness: run() skipped a mismatched command and interact_mode()
\* skipped the mismatched command of a config
C4_Witness ==
    /\ last.unit[1] = "cfg"
    /\ last.delegated
    /\ Mismatch(UnitCommand(last.unit))
    /\ last.ret = "Skipped"
    /\ phase.cmd_rets = <<"Skipped">>

\* The probe exited with code 0 and wrote something to stdout
Satisfied(o) == ~o.err /\ o.code = Some(0) /\ o.stdout # <<>>

\* C5: when an entry has a check and its probe exits 0 with non-empty
\* stdout, the command phase is bypassed: run_commands is not called,
\* none of the entry's Command Units is run, and the guard leaves
\* "process" at Success.
C5_SatisfiedCheckBypassesCommands ==
    /\ (last.unit = <<"entry", cur>> /\ IsSome(last.probe)
          /\ Satisfied(Unwrap(last.probe))) =>
          /\ phase.guard
          /\ last.ret = "Success"
          /\ pc # "commands"
    /\ (op \in {"execute", "setup"} /\ phase.guard
          /\ pc \in {"configs", "return", "done"}) =>
          /\ phase.cmd = None
          /\ phase.cmd_rets = <<>>
          /\ CallsOf("run", cur) = <<>>
          /\ \A k \in 1..Len(log) : ~(log[k].unit[1] = "cmd" /\ log[k].unit[2] = cur)

\* C5 witness: a satisfied check on an entry that has commands, the entry over
C5_Witness ==
    /\ op = "execute"
    /\ pc = "done"
    /\ last.unit = <<"entry", cur>>
    /\ IsSome(last.probe)
    /\ Satisfied(Unwrap(last.probe))
    /\ Len(CurrentCommands) >= 1

\* C6 as stated: when the entry's check is satisfied none of the entry's
\* Configuration Units is applied.
C6_SatisfiedCheckSkipsConfigs ==
    (op \in {"execute", "setup"} /\ phase.guard
        /\ pc \in {"configs", "return", "done"}) =>
       /\ CallsOf("apply", cur) = <<>>
       /\ phase.cfg = None

\* C6 amended: a satisfied check bypasses the command phase only; when the
\* entry has a config list, run() still enters the configuration phase
\* and applies every Configuration Unit once, in list order.
C6_SatisfiedCheckStillAppliesConfigs ==
    (AfterRun /\ phase.guard /\ IsSome(entries[cur].configs)) =>
       /\ IsSome(phase.cfg)
       /\ CallsOf("apply", cur) = InOrder("apply", "cfg", cur, Len(CurrentConfigs))
       /\ Len(phase.cfg_rets) = Len(CurrentConfigs)

\* C6 witness: the check was satisfied, no command ran, the config was applied
C6_Witness ==
    /\ AfterRun
    /\ phase.guard
    /\ Len(CurrentCommands) >= 1
    /\ CallsOf("run", cur) = <<>>
    /\ Len(CallsOf("apply", cur)) >= 1

\* The status the phases of the current entry determine
PhaseStatus ==
    IF IsSome(phase.cfg) THEN Unwrap(phase.cfg)
    ELSE IF IsSome(phase.cmd) THEN Unwrap(phase.cmd)
    ELSE "Success"

\* SetupEntry::run was called on the current entry: its guard was
\* satisfied or its command phase ran
RunCalled == phase.guard \/ IsSome(phase.cmd)

\* C7: what SetupEntry::run returns is the config phase's status if that
\* phase ran, else the command phase's status if that phase ran, else the
\* guard's Success.
C7_ReturnIsLastPhaseStatus ==
    /\ (op \in {"execute", "setup"} /\ pc = "return") => process = PhaseStatus
    /\ (op \in {"execute", "setup"} /\ pc = "done" /\ RunCalled) =>
          returned[Len(returned)] = PhaseStatus

\* C7 witness: the command phase gave Success, the config phase Failure,
\* and run() has returned
C7_Witness ==
    /\ op = "setup"
    /\ pc = "done"
    /\ phase.cmd = Some("Success")
    /\ phase.cfg = Some("Failure")

\* C8: when before_run yields Passed, execute returns Passed and neither
\* run() nor after_run() is called.
C8_PassedPreCheckSkipsRun ==
    (object = "ProcessRunner" /\ runner.before = Some("Passed")) =>
       /\ pc = "done"
       /\ runner.ran = 0
       /\ runner.aftered = 0
       /\ Len(runner.rets) = runner.execs
       /\ runner.rets[Len(runner.rets)] = "Passed"

\* C8 witness: an execute whose before_run yielded Passed has returned
C8_Witness ==
    /\ object = "ProcessRunner"
    /\ pc = "done"
    /\ runner.before = Some("Passed")
    /\ runner.execs = 1

\* C9: a Command Unit that reached the Shell Invoker rests at Success
\* exactly when the child exited with code 0, and at Failure otherwise
\* (non-zero code, ended by a signal, or no child at all); in capture
\* mode (run) and in attached mode (interact_mode).
C9_SuccessIffExitZero ==
    /\ (last.unit[1] = "cmd" /\ last.invoked) =>
          /\ IsSome(last.capture)
          /\ LET o == Unwrap(last.capture) IN
             last.ret = IF ~o.err /\ o.code = Some(0) THEN "Success" ELSE "Failure"
          /\ UnitCommand(last.unit).status = last.ret
    /\ (last.unit[1] = "cfg" /\ last.delegated /\ last.invoked) =>
          /\ IsSome(last.spawn)
          /\ LET o == Unwrap(last.spawn) IN
             last.ret = IF ~o.spawn_err /\ ~o.wait_err /\ o.code = Some(0)
                        THEN "Success" ELSE "Failure"
          /\ UnitCommand(last.unit).status = last.ret

\* C9 witness: a child started by interact_mode was ended by a signal
C9_Witness ==
    /\ last.unit[1] = "cfg"
    /\ last.spawn = Some(Exited(None))
    /\ last.ret = "Failure"

\* C10: SetupRegistry::execute runs every entry exactly once, in list
\* order, each after the previous one and all its children are over,
\* whatever the earlier entries returned: while entry cur is run exactly
\* cur-1 entries have returned, every logged call belongs to an entry up
\* to cur and follows all calls of the entries before it, and at the end
\* every entry has returned.
C10_ExecuteRunsEveryEntryInOrder ==
    op = "execute" =>
       /\ pc \in {"guard", "commands", "configs", "return"} =>
             /\ cur \in 1..Len(entries)
             /\ Len(returned) = cur - 1
       /\ pc = "done" => Len(returned) = Len(entries)
       /\ \A k \in 1..Len(log) : log[k].unit[2] \in 1..cur
       /\ \A j, k \in 1..Len(log) : j < k => log[j].unit[2] <= log[k].unit[2]

\* C10 witness: the first of two entries returned Failure, the second ran
\* its command afterwards and returned Success
C10_Witness ==
    /\ op = "execute"
    /\ pc = "done"
    /\ returned = <<"Failure", "Success">>
    /\ Len(CallsOf("run", 2)) >= 1

\* C11 as stated: SetupRegistry::execute takes every entry through the
\* whole lifecycle: once execute is over, every entry was pruned (its
\* clear_commands ran and no Command Unit that fails the Distribution
\* Guard is left in its list) and, where it declares a setup block, its
\* working directory was ensured.
C11_ExecuteRunsFullLifecycle ==
    (op = "execute" /\ pc = "done") =>
       \A e \in 1..Len(entries) :
          /\ CallsOf("clear_commands", e) # <<>>
          /\ \A k \in 1..Len(entries[e].commands) : ~Mismatch(entries[e].commands[k])
          /\ (IsSome(entries[e].setup) /\ IsSome(Unwrap(entries[e].setup).working_dir)) =>
                CallsOf("ensure_working_dir", e) # <<>>

\* The statuses a unit may rest at
Terminal == {"Success", "Failure", "Skipped", "Passed"}

\* C12: no call hands Running or Normal to its caller: what
\* CommandStruct::run, interact_mode, ConfigItem::apply, the aggregations,
\* SetupEntry::run / setup and ProcessRunner::execute returned is a
\* terminal status, and the cell of a Command Unit that was run holds the
\* terminal status the call returned.
C12_RunningNeverEscapes ==
    /\ \A k \in 1..Len(returned) : returned[k] \in Terminal
    /\ \A k \in 1..Len(runner.rets) : runner.rets[k] \in Terminal
    /\ \A k \in 1..Len(phase.cmd_rets) : phase.cmd_rets[k] \in Terminal
    /\ \A k \in 1..Len(phase.cfg_rets) : phase.cfg_rets[k] \in Terminal
    /\ last.unit[1] \in {"cmd", "cfg"} => last.ret \in Terminal
    /\ (last.unit[1] = "cmd" \/ (last.unit[1] = "cfg" /\ last.delegated)) =>
          /\ last.fx.status = last.ret
          /\ UnitCommand(last.unit).status = last.ret

\* C12 witness: an entry without check, commands or configs has returned:
\* "process" was Running when run_commands was called on the empty list,
\* and Success came back
C12_Witness ==
    /\ op = "setup"
    /\ pc = "done"
    /\ ~phase.guard
    /\ phase.cmd = Some("Success")
    /\ phase.cmd_rets = <<>>
    /\ entries[cur].configs = None
    /\ returned = <<"Success">>

\* The log entries that belong to one unit
LogOf(u) == SelectSeq(log, LAMBDA ev : ev.unit = u)

\* C13: when a Configuration Unit has a check and its probe exits 0 with
\* non-empty stdout, apply() returns Success and the wrapped Command Unit
\* is left alone: interact_mode is not called, the Shell Invoker is not
\* called for its command line and its cell is not written; whether the
\* wrapped unit's restriction matches the host makes no difference.
C13_SatisfiedConfigCheckSkipsUnit ==
    (last.unit[1] = "cfg" /\ IsSome(last.probe) /\ Satisfied(Unwrap(last.probe))) =>
       /\ last.ret = "Success"
       /\ ~last.delegated
       /\ ~last.invoked
       /\ last.spawn = None
       /\ last.fx.writes = 0
       /\ UnitCommand(last.unit).status = StatusDefault
       /\ \A k \in 1..Len(LogOf(last.unit)) :
             /\ LogOf(last.unit)[k].ev # "interact_mode"
             /\ LogOf(last.unit)[k].what # "payload"

\* C13 witness: the check of a config was satisfied on a host where the
\* wrapped unit's restriction does not match, and apply returned Success
C13_Witness ==
    /\ last.unit[1] = "cfg"
    /\ IsSome(last.probe)
    /\ Satisfied(Unwrap(last.probe))
    /\ Mismatch(UnitCommand(last.unit))
    /\ last.ret = "Success"

\* What interact_mode yields for the unit of the last call
AttachedStatus ==
    IF Mismatch(UnitCommand(last.unit)) THEN "Skipped"
    ELSE IF last.spawn = Some(Exited(Some(0))) THEN "Success" ELSE "Failure"

\* C14 as stated: whenever the check of a Configuration Unit is absent or
\* is not satisfied, apply() calls interact_mode on the wrapped unit and
\* returns the status that call produced.
C14_UnsatisfiedCheckAlwaysDelegates ==
    (last.unit[1] = "cfg" /\ (last.probe = None \/ ~Satisfied(Unwrap(last.probe)))) =>
       /\ last.delegated
       /\ last.ret = AttachedStatus

\* C14 amended: when the check is absent, or its probe ran and was not
\* satisfied, apply() calls interact_mode on the wrapped unit exactly once
\* and returns the status that call produced (the one its cell holds);
\* when the probe itself could not be run (I/O error), apply() returns
\* Failure without calling interact_mode.
C14_UnsatisfiedCheckDelegates ==
    /\ (last.unit[1] = "cfg"
          /\ (last.probe = None
                \/ (~Unwrap(last.probe).err /\ ~Satisfied(Unwrap(last.probe))))) =>
          /\ last.delegated
          /\ Len(SelectSeq(LogOf(last.unit), LAMBDA ev : ev.ev = "interact_mode")) = 1
          /\ last.ret = AttachedStatus
          /\ last.ret = UnitCommand(last.unit).status
    /\ (last.unit[1] = "cfg" /\ IsSome(last.probe) /\ Unwrap(last.probe).err) =>
          /\ ~last.delegated
          /\ ~last.invoked
          /\ last.ret = "Failure"

\* C14 witness: the probe of a config exited 1, interact_mode ran the
\* wrapped command, the child exited 1 and apply returned Failure
C14_Witness ==
    /\ last.unit[1] = "cfg"
    /\ IsSome(last.probe)
    /\ Unwrap(last.probe).code = Some(1)
    /\ last.delegated
    /\ last.spawn = Some(Exited(Some(1)))
    /\ last.ret = "Failure"

\* The last call was run() or interact_mode() on a Command Unit
OnCommandUnit == last.unit[1] = "cmd" \/ (last.unit[1] = "cfg" /\ last.delegated)

\* C15 as stated: on a host identified as Unknown every Command Unit that
\* carries a restriction, whatever its value, is skipped; a unit without
\* a restriction is never skipped.
C15_UnknownHostSkipsEveryRestriction ==
    OnCommandUnit =>
       LET cmd == UnitCommand(last.unit) IN
       /\ (identify_linux_distribution(files) = "Unknown" /\ IsSome(cmd.distribution)) =>
             (last.ret = "Skipped" /\ ~last.invoked)
       /\ cmd.distribution = None => last.ret # "Skipped"

\* C15 amended: on a host identified as Unknown every Command Unit whose
\* restriction names a distribution (Ubuntu, ArchLinux) is skipped, while
\* a unit restricted to Unknown matches the host and is executed; a unit
\* without a restriction is never skipped, on any host.
C15_UnknownHostSkipsNamedRestrictions ==
    OnCommandUnit =>
       LET cmd == UnitCommand(last.unit)
           host == identify_linux_distribution(files) IN
       /\ (host = "Unknown" /\ IsSome(cmd.distribution)
             /\ Unwrap(cmd.distribution) \in {"Ubuntu", "ArchLinux"}) =>
             (last.ret = "Skipped" /\ ~last.invoked)
       /\ (host = "Unknown" /\ cmd.distribution = Some("Unknown")) =>
             (last.ret \in {"Success", "Failure"} /\ last.invoked)
       /\ cmd.distribution = None =>
             (last.ret \in {"Success", "Failure"} /\ last.invoked)

\* C15 witness: on an Unknown host a unit restricted to Ubuntu was skipped
\* and then a unit restricted to Unknown was run
C15_Witness ==
    /\ identify_linux_distribution(files) = "Unknown"
    /\ last.unit = <<"cmd", Owner, 2>>
    /\ UnitCommand(last.unit).distribution = Some("Unknown")
    /\ last.invoked
    /\ phase.cmd_rets = <<"Skipped", "Success">>

\* The positions in the log where run() reported an error of one kind for
\* a Command Unit of the list in progress
ErrorsOf(kind) ==
    { k \in 1..Len(log) : /\ log[k].ev = "eprintln"
                          /\ log[k].shell = kind
                          /\ log[k].unit[2] = Owner }

\* C16: an I/O error of the Shell Invoker makes the one command rest at
\* Failure and nothing else: run() returns Failure with the cell at
\* Failure, interact_mode() does the same for a failed spawn or wait, the
\* loop stands at the next sibling right afterwards, and when the phase is
\* over every sibling was run, the ones after the error included.
C16_IoErrorFailsOnlyTheCommand ==
    /\ (last.unit[1] = "cmd" /\ last.capture = Some(IoError)) =>
          /\ last.ret = "Failure"
          /\ UnitCommand(last.unit).status = "Failure"
          /\ last.error = Some("Io")
    /\ (last.unit[1] = "cfg" /\ last.spawn \in {Some(SpawnError), Some(WaitError)}) =>
          /\ last.ret = "Failure"
          /\ UnitCommand(last.unit).status = "Failure"
          /\ pc \in {"configs", "repo_configs"} => idx = last.unit[3] + 1
    /\ \A k \in ErrorsOf("Io") :
          /\ phase.cmd_rets[log[k].unit[3]] = "Failure"
          /\ pc \in {"commands", "repo_commands"} => idx > log[k].unit[3]
          /\ pc \in {"commands", "repo_commands", "configs", "return", "done"}
          /\ IsSome(phase.cmd) =>
                CallsOf("run", Owner) = InOrder("run", "cmd", Owner, Len(CurrentCommands))

\* C16 witness: the first command could not be started, and its sibling
\* was run afterwards and succeeded
C16_Witness ==
    /\ \E k \in ErrorsOf("Io") : log[k].unit[3] = 1
    /\ last.unit = <<"cmd", Owner, 2>>
    /\ last.ret = "Success"
    /\ phase.cmd_rets = <<"Failure", "Success">>

\* The text holds the literal "Command not found"
HasMarker(text) ==
    \E k \in 1..Len(text) :
        k + 2 <= Len(text) /\ SubSeq(text, k, k + 2) = <<"Command", "not", "found">>

\* C17: when the child of run() exits unsuccessfully (non-zero code or
\* signal), the error run() reports is of kind NotFound exactly when the
\* captured stderr holds the marker "Command not found", and of kind Other
\* otherwise; in both cases the unit rests at Failure, run() returns
\* Failure and the loop stands at the next sibling.
C17_NotFoundIffMarkerAndAlwaysFailure ==
    (last.unit[1] = "cmd" /\ IsSome(last.capture) /\ ~Unwrap(last.capture).err
        /\ Unwrap(last.capture).code # Some(0)) =>
       /\ last.error = Some(IF HasMarker(Unwrap(last.capture).stderr)
                            THEN "NotFound" ELSE "Other")
       /\ last.ret = "Failure"
       /\ UnitCommand(last.unit).status = "Failure"
       /\ pc \in {"commands", "repo_commands"} => idx = last.unit[3] + 1

\* C17 witness: the first command failed with the marker in its stderr and
\* was reported as NotFound, the second failed with "sh: command not
\* found" (no marker) and was reported as Other; both rest at Failure
C17_Witness ==
    /\ \E k \in ErrorsOf("NotFound") : log[k].unit[3] = 1
    /\ last.unit = <<"cmd", Owner, 2>>
    /\ last.capture = Some(Output(Some(1), <<>>, <<"sh:", "command", "not", "found">>))
    /\ last.error = Some("Other")
    /\ phase.cmd_rets = <<"Failure", "Failure">>

\* C18: executing a unit again while its pre-run check stays satisfied
\* (before_run yields Passed each time) returns Passed each time and
\* never calls run(): every execute whose before_run yielded Passed
\* returned Passed, whatever the executes before it did, and as long as
\* all of them were Passed the payload was invoked zero times in all.
C18_SatisfiedCheckIsIdempotent ==
    object = "ProcessRunner" =>
       /\ \A k \in 1..Len(runner.rets) :
             runner.befores[k] = "Passed" => runner.rets[k] = "Passed"
       /\ (\A k \in 1..Len(runner.befores) : runner.befores[k] = "Passed") =>
             /\ runner.runs = 0
             /\ runner.aftered = 0
             /\ pc \in {"idle", "done"}
             /\ runner.rets = runner.befores

\* C18 witness: two executes in a row, before_run yielded Passed both
\* times, both returned Passed and run() was never called
C18_Witness ==
    /\ object = "ProcessRunner"
    /\ pc = "done"
    /\ runner.befores = <<"Passed", "Passed">>
    /\ runner.rets = <<"Passed", "Passed">>
    /\ runner.runs = 0

\* C19 as stated: each call of run() or interact_mode() on a Command Unit
\* writes the unit's status cell exactly once, on every path.
C19_CellWrittenOncePerCall ==
    OnCommandUnit => last.fx.writes = 1

\* C20 as stated: every run() of a Command Unit writes exactly one status
\* line: one on standard output and none on standard error when it rests
\* at Success, Skipped or Passed, one on standard error and none on
\* standard output when it rests at Failure.
C20_OneStatusLinePerRun ==
    last.unit[1] = "cmd" =>
       /\ last.ret \in {"Success", "Skipped", "Passed"} =>
             (last.fx.out = 1 /\ last.fx.err = 0)
       /\ last.ret = "Failure" => (last.fx.err = 1 /\ last.fx.out = 0)

\* C21: print_message is a fixed total function of the status: each of the
\* seven statuses gives a line, the line goes to standard error exactly
\* when the status is Failure and to standard output otherwise, and two
\* calls with the same status and message write the same icon, colour
\* and stream.
C21_PresentationIsAFixedFunction ==
    /\ \A k \in 1..Len(log) :
          /\ log[k].stream \in {"stdout", "stderr"}
          /\ (log[k].stream = "stderr") <=> (log[k].status = "Failure")
    /\ \A j, k \in 1..Len(log) :
          (log[j].status = log[k].status /\ log[j].message = log[k].message) =>
             /\ log[j].icon = log[k].icon
             /\ log[j].color = log[k].color
             /\ log[j].stream = log[k].stream

\* C21 witness: Failure was printed twice with the same message, to
\* standard error both times
C21_Witness ==
    /\ object = "Status"
    /\ Len(log) = 2
    /\ log[1].status = "Failure" /\ log[2].status = "Failure"
    /\ log[1].message = log[2].message
    /\ log[1].stream = "stderr" /\ log[2].stream = "stderr"

\* The units of a list the Distribution Guard does not skip on this host,
\* in list order
Applicable(cmds) == SelectSeq(cmds, LAMBDA c : ~Mismatch(c))

\* A list of Command Units without the status cells
Bare(cmds) == [k \in 1..Len(cmds) |-> [cmds[k] EXCEPT !.status = StatusDefault]]

\* setup() is past its clear_commands
Pruned == op = "setup" /\ pc \notin {"idle", "prune"}

\* C22: once clear_commands has run, the entry's command list is exactly
\* the loaded list restricted to the units the Distribution Guard does not
\* skip, in the loaded order: nothing applicable removed, nothing
\* inapplicable left, nothing duplicated or reordered, wherever in the
\* list the pruned units stood.
C22_PruningKeepsExactlyApplicable ==
    Pruned => Bare(entries[cur].commands) = Applicable(loaded[cur].commands)

\* C22 witness: of two loaded units the first failed the guard and was
\* removed, the second passed it and is the whole list now
C22_Witness ==
    /\ Pruned
    /\ Len(loaded[cur].commands) = 2
    /\ Mismatch(loaded[cur].commands[1])
    /\ ~Mismatch(loaded[cur].commands[2])
    /\ entries[cur].commands = <<loaded[cur].commands[2]>>

\* The place of a logged step in the lifecycle as the claim orders it:
\* working directory, environment variables, pruning, guard, commands,
\* configs
ClaimedRank(ev) ==
    CASE ev.ev = "ensure_working_dir" -> 1
      [] ev.ev = "prompt"             -> 2
      [] ev.ev = "clear_commands"     -> 3
      [] ev.unit[1] = "cmd"           -> 5
      [] ev.unit[1] = "cfg"           -> 6
      [] OTHER                        -> 4

\* The place of a logged step in the lifecycle with pruning first
PruneFirstRank(ev) ==
    CASE ev.ev = "clear_commands"     -> 1
      [] ev.ev = "ensure_working_dir" -> 2
      [] ev.ev = "prompt"             -> 3
      [] ev.unit[1] = "cmd"           -> 5
      [] ev.unit[1] = "cfg"           -> 6
      [] OTHER                        -> 4

\* C23 as stated: in setup() the steps occur in the order working
\* directory, environment variables, pruning, guard, commands, configs.
C23_PreconditionBeforePruning ==
    op = "setup" =>
       \A k \in 1..(Len(log) - 1) : ClaimedRank(log[k]) <= ClaimedRank(log[k + 1])

\* C23 amended: in setup() the steps occur strictly in the order pruning,
\* working directory, environment variables, guard, command aggregation,
\* configuration aggregation: clear_commands is the first step of all,
\* every later step follows the steps of the phases before it, no command
\* runs before the guard is over and no config is applied before the
\* command phase is.
C23_PruningThenPreconditionThenRun ==
    op = "setup" =>
       /\ \A k \in 1..(Len(log) - 1) :
             PruneFirstRank(log[k]) <= PruneFirstRank(log[k + 1])
       /\ Pruned => (Len(log) >= 1 /\ log[1].ev = "clear_commands")
       /\ (\E k \in 1..Len(log) : PruneFirstRank(log[k]) >= 4) =>
             pc \in {"commands", "configs", "return", "done"}
       /\ (\E k \in 1..Len(log) : log[k].unit[1] = "cfg") =>
             (pc \in {"configs", "return", "done"}
                /\ (~phase.guard =>
                      (IsSome(phase.cmd)
                         /\ Len(phase.cmd_rets) = Len(entries[cur].commands))))

\* C23 witness: a setup() that went through every phase: pruning, working
\* directory, a prompt, the guard probe, a command and a config
C23_Witness ==
    /\ op = "setup"
    /\ pc = "done"
    /\ \A r \in 1..6 : \E k \in 1..Len(log) : PruneFirstRank(log[k]) = r

\* setup() is past ensure_working_dir and the declared directory is absent:
\* it could not be created
WorkingDirFailed ==
    /\ Pruned
    /\ pc # "workdir"
    /\ IsSome(entries[cur].setup)
    /\ IsSome(Unwrap(entries[cur].setup).working_dir)
    /\ Unwrap(Unwrap(entries[cur].setup).working_dir) \notin dirs

\* C24: when the declared working directory is absent and cannot be
\* created, setup() returns Failure at once: no prompt, no guard probe, no
\* Command or Configuration Unit of the entry is invoked, no phase of run()
\* is entered; the other entries and the environment are as they were.
C24_WorkingDirFailureFailsEntryOnly ==
    WorkingDirFailed =>
       /\ pc = "done"
       /\ returned = <<"Failure">>
       /\ phase = NoPhase
       /\ last = NoCall
       /\ \A k \in 1..Len(log) : log[k].ev \in {"clear_commands", "ensure_working_dir"}
       /\ env = InitialEnv
       /\ \A e \in 1..Len(entries) : e # cur => entries[e] = loaded[e]

\* C24 witness: the directory of an entry with a check, a command and a
\* config could not be created, and setup() is over
C24_Witness ==
    /\ WorkingDirFailed
    /\ IsSome(entries[cur].check)
    /\ Len(entries[cur].commands) >= 1
    /\ Len(CurrentConfigs) >= 1

\* The prompts for environment variables made so far
Prompts == SelectSeq(log, LAMBDA ev : ev.ev = "prompt")

\* The variables whose entered value the user confirmed: the answer,
\* trimmed and in lower case, was y
Confirmed ==
    { Prompts[k].shell : k \in { i \in 1..Len(Prompts) : Prompts[i].mode = "y" } }

\* C25: the environment changes only by a confirmed prompt for a variable
\* that was unset: every variable added was confirmed, a variable that is
\* already set is neither prompted for nor modified (it keeps its value,
\* valid Unicode or not), a declined variable stays unset, and a decline
\* never ends setup(): a setup() that returned after one (no read of the
\* terminal having failed) went through the guard and the phases of run().
C25_EnvChangedOnlyOnConfirmation ==
    /\ env \ InitialEnv \subseteq Confirmed
    /\ non_unicode = InitialNonUnicode
    /\ \A k \in 1..Len(Prompts) :
          /\ Prompts[k].shell \notin InitialEnv
          /\ \A j \in 1..(k - 1) : Prompts[j].shell # Prompts[k].shell
          /\ Prompts[k].mode = "n" => Prompts[k].shell \notin env
    /\ (op = "setup" /\ Prompts # <<>> /\ Prompts[Len(Prompts)].mode = "n") =>
          /\ pc # "panic"
          /\ pc = "done" => RunCalled
    /\ (op = "setup" /\ pc = "done"
          /\ (\E k \in 1..Len(Prompts) : Prompts[k].mode = "n")
          /\ (\A k \in 1..Len(Prompts) : Prompts[k].mode # "error")) =>
          /\ RunCalled
          /\ returned = <<PhaseStatus>>

\* The phase record describes the list in progress
InPhases ==
    pc \in {"commands", "configs", "return", "done", "repo_commands", "repo_configs"}

\* C26: when run() or interact_mode() on a Command Unit returned s, the
\* unit's cell holds s and s is Skipped, Success or Failure; the cell then
\* keeps s while the later units of the entry are run: every unit of the
\* list that was run holds what its run returned, every unit not yet run
\* holds the default, and the wrapped unit of a config holds what its
\* interact_mode returned if that was called.
C26_CellHoldsReturnedStatus ==
    /\ OnCommandUnit =>
          /\ last.ret \in {"Skipped", "Success", "Failure"}
          /\ last.fx.status = last.ret
          /\ UnitCommand(last.unit).status = last.ret
    /\ InPhases =>
          /\ \A i \in 1..Len(CurrentCommands) :
                CurrentCommands[i].status =
                   IF i <= Len(phase.cmd_rets) THEN phase.cmd_rets[i] ELSE StatusDefault
          /\ \A j \in 1..Len(CurrentConfigs) :
                LET cell == CurrentConfigs[j].command.status IN
                /\ cell \in {StatusDefault, "Skipped", "Success", "Failure"}
                /\ j > Len(phase.cfg_rets) => cell = StatusDefault
                /\ cell # StatusDefault => cell = phase.cfg_rets[j]

\* C26 witness: the first command was skipped, the second succeeded, then
\* a config was applied; both cells still hold what the runs returned
C26_Witness ==
    /\ op = "execute"
    /\ pc = "done"
    /\ phase.cmd_rets = <<"Skipped", "Success">>
    /\ CurrentCommands[1].status = "Skipped"
    /\ CurrentCommands[2].status = "Success"
    /\ last.unit[1] = "cfg"
    /\ last.delegated

\* The program name a unit's shell attribute stands for
ConfiguredShell(cmd) ==
    IF cmd.shell = None THEN "sh"
    ELSE IF cmd.shell = Some(<<"Bash">>) THEN "bash"
    ELSE IF cmd.shell = Some(<<"Zsh">>) THEN "zsh"
    ELSE IF cmd.shell = Some(<<"Sh">>) THEN "sh"
    ELSE Unwrap(cmd.shell)[2]

\* C27: every probe of an idempotency check, of an entry or of a config,
\* is a capture-mode call of the interpreter sh, whatever shell the guarded
\* unit configures; every payload is run by the unit's configured shell,
\* sh when none is configured, in capture mode by run() and attached by
\* interact_mode().
C27_ProbeUsesShPayloadUsesUnitShell ==
    \A k \in 1..Len(log) :
       log[k].ev = "sh" =>
          /\ log[k].what = "probe" =>
                (log[k].shell = "sh" /\ log[k].mode = "capture")
          /\ log[k].what = "payload" =>
                /\ log[k].shell = ConfiguredShell(UnitCommand(log[k].unit))
                /\ log[k].mode = IF log[k].unit[1] = "cmd" THEN "capture" ELSE "spawn"

\* C27 witness: the check of a config whose wrapped unit configures bash
\* was probed with sh, and the wrapped unit was then run by bash
C27_Witness ==
    \E j, k \in 1..Len(log) :
       /\ j < k
       /\ log[j].unit[1] = "cfg" /\ log[k].unit = log[j].unit
       /\ log[j].ev = "sh" /\ log[j].what = "probe" /\ log[j].shell = "sh"
       /\ log[k].ev = "sh" /\ log[k].what = "payload" /\ log[k].shell = "bash"

\* A list of Configuration Units without the status cells
BareConfigs(cfgs) ==
    [k \in 1..Len(cfgs) |-> [cfgs[k] EXCEPT !.command.status = StatusDefault]]

\* An entry list without the status cells
Structure(es) ==
    [e \in 1..Len(es) |->
        [es[e] EXCEPT !.commands = Bare(@),
                      !.configs = IF IsSome(@) THEN Some(BareConfigs(Unwrap(@))) ELSE None]]

\* Under execute the registry holds the entries it was given, in their
\* order, each with its commands and configs; under setup() the same
\* holds but for the pruned command list of the one entry; entries the
\* loop has not reached are untouched, and in the list in progress the
\* units not yet run still hold the default status.
ListsAsGiven ==
    /\ op # "setup" => Structure(entries) = loaded
    /\ op = "setup" =>
          Structure(entries) =
             IF Pruned THEN [loaded EXCEPT ![cur].commands = Applicable(@)] ELSE loaded
    /\ \A e \in 1..Len(entries) :
          (e > cur \/ (op = "setup" /\ e # cur)) =>
             (entries[e].commands = Bare(entries[e].commands)
                /\ entries[e].configs = Structure(entries)[e].configs)
    /\ (op \in {"execute", "setup"} /\ pc = "commands") =>
          /\ \A i \in idx..Len(entries[cur].commands) :
                entries[cur].commands[i].status = StatusDefault
          /\ entries[cur].configs = Structure(entries)[cur].configs
    /\ (op \in {"execute", "setup"} /\ pc = "configs") =>
          \A j \in idx..Len(CurrentConfigs) :
             CurrentConfigs[j].command.status = StatusDefault

\* C28: within execute() and setup() only the pruning step changes a
\* child list: the guard, the command phase, the config phase and execute
\* leave the entry list, the command lists and the config lists as they
\* were given, and a call changes the cell of its unit only.  A step that
\* changes a list is the clear_commands of setup(), or a call the owner of
\* an entry makes on it (remove_command, clear_commands) before execute()
\* or setup() begins.
C28_OnlyPruningChangesLists ==
    /\ []ListsAsGiven
    /\ [][Structure(entries)' # Structure(entries) =>
            (pc = "prune" \/ (op = "none" /\ pc = "idle"))]_vars

\* C28 witness: execute is over for two entries whose units were run:
\* cells have changed, the lists have not
C28_Witness ==
    /\ op = "execute"
    /\ pc = "done"
    /\ Len(entries) = 2
    /\ entries[1] # loaded[1]
    /\ entries[2] # loaded[2]
    /\ Structure(entries) = loaded
    /\ \E e \in 1..2 : \E i \in 1..Len(loaded[e].commands) :
          Mismatch(loaded[e].commands[i])

\* The calls of the Shell Invoker made so far
ShCalls == Len(SelectSeq(log, LAMBDA ev : ev.ev = "sh"))

\* The most calls of the Shell Invoker one entry can need: the probe of its
\* check, one call per command, a probe and a call per config
RECURSIVE MaxShCalls(_, _)
MaxShCalls(es, e) ==
    IF e > Len(es) THEN 0
    ELSE (IF IsSome(es[e].check) THEN 1 ELSE 0)
         + Len(es[e].commands)
         + (IF IsSome(es[e].configs) THEN 2 * Len(Unwrap(es[e].configs)) ELSE 0)
         + MaxShCalls(es, e + 1)

\* C29: given that every child exits (every step that waits for one is
\* eventually taken), execute() eventually reaches its end, and on the way
\* it calls the Shell Invoker at most once per probe and once per payload
\* of the loaded entries.
C29_ExecuteEventuallyCompletes ==
    /\ <>(op = "execute" /\ pc = "done" /\ Len(returned) = Len(entries))
    /\ [](ShCalls <= MaxShCalls(loaded, 1))

\* C29 witness: execute is over after calls of the Shell Invoker for the
\* probe, a command and a config of two entries
C29_Witness ==
    /\ op = "execute"
    /\ pc = "done"
    /\ Len(entries) = 2
    /\ ShCalls >= 4
    /\ ShCalls = MaxShCalls(loaded, 1)

\* The calls of the Shell Invoker for the payload of command k of entry e
PayloadCalls(e, k) ==
    SelectSeq(log, LAMBDA ev : /\ ev.ev = "sh"
                               /\ ev.what = "payload"
                               /\ ev.unit = <<"cmd", e, k>>)

\* C30: the host files do not change during setup(); once setup() has
\* pruned the entry, every command run in its command phase returned
\* Success or Failure, never Skipped, after one call of the Shell Invoker
\* for its command line, and its cell holds that status.
C30_NoSkippedAfterPruning ==
    (Pruned /\ InPhases) =>
       \A k \in 1..Len(phase.cmd_rets) :
          /\ phase.cmd_rets[k] \in {"Success", "Failure"}
          /\ Len(PayloadCalls(cur, k)) = 1
          /\ CurrentCommands[k].status = phase.cmd_rets[k]

\* C30 witness: setup() removed a restricted command of the loaded entry
\* and the one that remained was run and did not return Skipped
C30_Witness ==
    /\ Pruned
    /\ pc = "done"
    /\ Len(loaded[cur].commands) = 2
    /\ Len(CurrentCommands) = 1
    /\ Mismatch(loaded[cur].commands[1])
    /\ Len(phase.cmd_rets) = 1
    /\ phase.cmd_rets[1] \in {"Success", "Failure"}
    /\ Len(PayloadCalls(cur, 1)) = 1

\* The last call was the guard of the current entry and its probe could
\* not be executed
GuardProbeError ==
    /\ op \in {"execute", "setup"}
    /\ last.unit = <<"entry", cur>>
    /\ last.probe = Some(IoError)

\* A child of the current entry returned Failure
SomeChildFailed ==
    \/ \E k \in 1..Len(phase.cmd_rets) : phase.cmd_rets[k] = "Failure"
    \/ \E k \in 1..Len(phase.cfg_rets) : phase.cfg_rets[k] = "Failure"

\* C31: when the probe of an entry's check cannot be executed, run() takes
\* the check for not satisfied: the guard leaves "process" at Running and
\* the command phase is entered; with no child run since, the entry's
\* status is the Success of its phases.  Whenever the check was not
\* satisfied, the entry's status is Failure only if a child returned
\* Failure.
C31_ProbeErrorRunsCommandPhase ==
    /\ GuardProbeError =>
          /\ last.ret = "Running"
          /\ ~phase.guard
          /\ pc \in {"commands", "configs", "return", "done"}
          /\ pc # "commands" => phase.cmd = Some("Success")
          /\ pc \in {"return", "done"} => process = "Success"
          /\ pc = "done" => returned[Len(returned)] = "Success"
    /\ (AfterRun /\ RunCalled /\ ~phase.guard) =>
          /\ IsSome(phase.cmd)
          /\ process = "Failure" => SomeChildFailed

\* C31 witness: the probe of the check failed with an I/O error, the
\* command phase and the config phase were gone through, the entry
\* returned Success
C31_Witness ==
    /\ GuardProbeError
    /\ op = "execute"
    /\ pc = "done"
    /\ IsSome(entries[cur].check)
    /\ phase.cmd = Some("Success")
    /\ phase.cfg = Some("Success")
    /\ returned[Len(returned)] = "Success"

\* The last call was apply() on a config whose probe could not be executed
ConfigProbeError ==
    /\ last.unit[1] = "cfg"
    /\ last.probe = Some(IoError)

\* The last call was apply() on a config whose probe ran and was not
\* satisfied: a non-zero exit, or an exit of 0 with empty stdout
ConfigProbeUnsatisfied ==
    /\ last.unit[1] = "cfg"
    /\ IsSome(last.probe)
    /\ ~Unwrap(last.probe).err
    /\ ~Satisfied(Unwrap(last.probe))

\* C32: when the probe of a config's check cannot be executed, apply()
\* returns Failure, the wrapped unit is not invoked (no spawn, its cell
\* untouched, no payload call) and the config counts as failed in its
\* list.  When the probe ran and was not satisfied, apply() returns
\* Failure only if the wrapped unit was invoked and did not exit with 0.
C32_ProbeErrorFailsWithoutInvoking ==
    /\ ConfigProbeError =>
          /\ last.ret = "Failure"
          /\ ~last.delegated
          /\ ~last.invoked
          /\ last.spawn = None
          /\ last.fx.writes = 0
          /\ UnitCommand(last.unit).status = StatusDefault
          /\ \A k \in 1..Len(log) :
                log[k].unit = last.unit => log[k].what # "payload"
          /\ phase.cfg_rets[last.unit[3]] = "Failure"
    /\ ConfigProbeUnsatisfied =>
          /\ last.delegated
          /\ last.ret = "Failure" =>
                /\ last.invoked
                /\ IsSome(last.spawn)
                /\ Unwrap(last.spawn) # Exited(Some(0))

\* C32 witness: the probe of a config failed with an I/O error on a host
\* where the wrapped unit applies; apply returned Failure and the config
\* phase of the entry ended in Failure
C32_Witness ==
    /\ ConfigProbeError
    /\ op = "execute"
    /\ pc = "done"
    /\ ~Mismatch(UnitCommand(last.unit))
    /\ last.ret = "Failure"
    /\ phase.cfg = Some("Failure")

\* What execute makes of the status a that after_run returned
Mapped(a) == IF a \in {"Passed", "Failure", "Skipped"} THEN a ELSE "Success"

\* One call of execute is over: it returned one of the four statuses; if
\* before_run returned a status of early, that status was returned and
\* run() was not called; otherwise run() was called once, after_run once
\* with the status of run(), and what after_run returned was returned,
\* mapped; a Failure of run() was returned only if after_run returned it.
ExecuteContract(early) ==
    (object = "ProcessRunner" /\ pc = "done") =>
       LET b == Unwrap(runner.before)
           ret == runner.rets[Len(runner.rets)] IN
       /\ Len(runner.rets) = runner.execs
       /\ ret \in {"Success", "Passed", "Failure", "Skipped"}
       /\ IF b \in early
          THEN /\ ret = b
               /\ runner.ran = 0
               /\ runner.aftered = 0
          ELSE /\ runner.ran = 1
               /\ runner.aftered = 1
               /\ IsSome(runner.status)
               /\ IsSome(runner.after)
               /\ ret = Mapped(Unwrap(runner.after))
               /\ (runner.status = Some("Failure") /\ ret = "Failure") =>
                     runner.after = Some("Failure")

\* C33 as stated: execute returns at once only when before_run returned
\* Failure or Skipped; in every other case, Passed included, run() is
\* called exactly once and the mapped status of after_run is returned.
C33_RunCalledUnlessFailureOrSkipped == ExecuteContract({"Failure", "Skipped"})

\* C33 amended: execute returns only Success, Passed, Failure or Skipped.
\* If before_run returns Passed, Failure or Skipped, that status is
\* returned and run() is never called; otherwise run() is called exactly
\* once and the result is what after_run returned for the status of run(),
\* every value other than Passed, Failure and Skipped mapped to Success,
\* so a Failure of run() reaches the caller only if after_run returns
\* Failure.
C33_RunCalledUnlessEarlyStatus ==
    /\ ExecuteContract({"Passed", "Failure", "Skipped"})
    /\ pc = "proc_run" =>
          (runner.ran = 0 /\ Unwrap(runner.before) \notin {"Passed", "Failure", "Skipped"})
    /\ pc = "proc_after" => (runner.ran = 1 /\ runner.aftered = 0)

\* C33 witness: before_run returned Running, run() returned Failure,
\* after_run returned Warning and execute returned Success
C33_Witness ==
    /\ object = "ProcessRunner"
    /\ pc = "done"
    /\ runner.before = Some("Running")
    /\ runner.ran = 1
    /\ runner.status = Some("Failure")
    /\ runner.after = Some("Warning")
    /\ runner.rets[Len(runner.rets)] = "Success"

====
